---- MODULE Spec2Model ----
(***************************************************************************)
(* Model of src/app.py: the Flask handler index() of "On This Day in       *)
(* Music" and its helper search_releases_for_date().                       *)
(*                                                                         *)
(* Encoding of Python values:                                              *)
(*   - a str is a sequence of ASCII codes, so that indexing, slicing and   *)
(*     the lexicographic order of Python strings are the real ones;        *)
(*   - an Optional value is None == <<>> or Some(x) == <<x>>;              *)
(*   - the error banner (a str or None) is the sequence of the messages    *)
(*     that were joined with " | "; None is the empty sequence, and the    *)
(*     truth value `if error` is Len(error) > 0 (no message is empty);     *)
(*   - a dict is a function from its keys.                                 *)
(***************************************************************************)
EXTENDS Integers, Sequences, FiniteSets, TLC

\* ---------------------------------------------------------------- bounds
\* Largest number of raw releases in one response of the catalog.
MaxPerCall == 3
\* Largest number of raw releases the catalog returns over one submission.
MaxRecords == 3
\* Only the first BusyCalls calls of a submission find releases.
BusyCalls == 2

\* ------------------------------------------------------ program constants
MAX_YEARS_PER_REQUEST == 25
DefaultStartYear == 1990
Limit == 50
\* datetime.now().year, read once per request
CurrentYear == 2026

\* ------------------------------------------------------------ characters
\* ord() of the characters the inputs are written with
Ascii == [sp |-> 32, dash |-> 45, zero |-> 48, a |-> 97, b |-> 98, x |-> 120]
SP == Ascii.sp
DASH == Ascii.dash
ZERO == Ascii.zero
ChA == Ascii.a
ChB == Ascii.b
ChX == Ascii.x

None == <<>>
Some(x) == <<x>>

IsDigit(c) == c >= ZERO /\ c <= ZERO + 9
DigitVal(c) == c - ZERO

\* str.strip() for the blank character
RECURSIVE LStrip(_)
LStrip(s) == IF s # <<>> /\ Head(s) = SP THEN LStrip(Tail(s)) ELSE s

RECURSIVE RStrip(_)
RStrip(s) ==
  IF s # <<>> /\ s[Len(s)] = SP THEN RStrip(SubSeq(s, 1, Len(s) - 1)) ELSE s

Strip(s) == RStrip(LStrip(s))

\* value of a sequence of decimal digits
RECURSIVE DigitsVal(_)
DigitsVal(s) ==
  IF s = <<>> THEN 0
  ELSE 10 * DigitsVal(SubSeq(s, 1, Len(s) - 1)) + DigitVal(s[Len(s)])

AllDigits(s) == \A i \in 1..Len(s) : IsDigit(s[i])

\* int(s) of a stripped string: an optional sign and at least one digit,
\* anything else raises ValueError (ok = FALSE)
ParseInt(s) ==
  IF s # <<>> /\ AllDigits(s)
    THEN [ok |-> TRUE, val |-> DigitsVal(s)]
  ELSE IF Len(s) >= 2 /\ s[1] = DASH /\ AllDigits(Tail(s))
    THEN [ok |-> TRUE, val |-> 0 - DigitsVal(Tail(s))]
  ELSE [ok |-> FALSE, val |-> 0]

\* decimal digits of a natural number, as f"{n}" prints them
RECURSIVE NatToStr(_)
NatToStr(n) ==
  IF n < 10 THEN <<ZERO + n>> ELSE NatToStr(n \div 10) \o <<ZERO + (n % 10)>>

IntToStr(n) == IF n < 0 THEN <<DASH>> \o NatToStr(0 - n) ELSE NatToStr(n)

\* zero-padded decimal of width w (strftime %Y, %m, %d)
RECURSIVE Pad(_, _)
Pad(s, w) == IF Len(s) >= w THEN s ELSE Pad(<<ZERO>> \o s, w)

\* ------------------------------------------------------- strptime/strftime
IsLeap(y) == (y % 4 = 0 /\ y % 100 # 0) \/ y % 400 = 0

DaysInMonth(y, m) ==
  IF m = 2 THEN (IF IsLeap(y) THEN 29 ELSE 28)
  ELSE IF m \in {4, 6, 9, 11} THEN 30 ELSE 31

At(s, i) == IF i >= 1 /\ i <= Len(s) THEN s[i] ELSE 0 - 1

\* length matched at position i by the %m pattern 1[0-2]|0[1-9]|[1-9]
MonthMatch(s, i) ==
  IF At(s, i) = ZERO + 1 /\ At(s, i + 1) \in (ZERO .. ZERO + 2) THEN 2
  ELSE IF At(s, i) = ZERO /\ At(s, i + 1) \in (ZERO + 1 .. ZERO + 9) THEN 2
  ELSE IF At(s, i) \in (ZERO + 1 .. ZERO + 9) THEN 1
  ELSE 0

\* length matched at position i by the %d pattern
\* 3[01]|[12]\d|0[1-9]|[1-9]| [1-9]
DayMatch(s, i) ==
  IF At(s, i) = ZERO + 3 /\ At(s, i + 1) \in (ZERO .. ZERO + 1) THEN 2
  ELSE IF At(s, i) \in (ZERO + 1 .. ZERO + 2) /\ IsDigit(At(s, i + 1)) THEN 2
  ELSE IF At(s, i) = ZERO /\ At(s, i + 1) \in (ZERO + 1 .. ZERO + 9) THEN 2
  ELSE IF At(s, i) \in (ZERO + 1 .. ZERO + 9) THEN 1
  ELSE IF At(s, i) = SP /\ At(s, i + 1) \in (ZERO + 1 .. ZERO + 9) THEN 2
  ELSE 0

\* datetime.strptime(s, "%Y-%m-%d"); ok = FALSE stands for ValueError
Strptime(s) ==
  LET bad == [ok |-> FALSE, year |-> 0, month |-> 0, day |-> 0]
      ml == MonthMatch(s, 6)
      dl == DayMatch(s, 7 + ml)
  IN IF ~(Len(s) >= 5 /\ AllDigits(SubSeq(s, 1, 4)) /\ s[5] = DASH) THEN bad
     ELSE IF ml = 0 \/ At(s, 6 + ml) # DASH THEN bad
     ELSE IF dl = 0 \/ Len(s) # 6 + ml + dl THEN bad
     ELSE LET y == DigitsVal(SubSeq(s, 1, 4))
              m == DigitsVal(SubSeq(s, 6, 5 + ml))
              d == DigitsVal(LStrip(SubSeq(s, 7 + ml, 6 + ml + dl)))
          IN IF y < 1 \/ d > DaysInMonth(y, m) THEN bad
             ELSE [ok |-> TRUE, year |-> y, month |-> m, day |-> d]

MonthNames ==
  <<"January", "February", "March", "April", "May", "June", "July",
    "August", "September", "October", "November", "December">>

\* _dt.strftime("%B %d"): the month name, a blank, the zero-padded day
StrftimeBd(dt) == <<MonthNames[dt.month], SP>> \o Pad(NatToStr(dt.day), 2)

\* datetime.now().strftime("%Y-%m-%d") on the day of the request
Today ==
  Pad(NatToStr(CurrentYear), 4) \o <<DASH, ZERO + 1, ZERO + 1, DASH, ZERO, ZERO + 4>>

\* date_value[5:]
MmDd(s) == SubSeq(s, 6, Len(s))

\* ------------------------------------------------------------ the inputs
\* "2020-2-29 " (strptime accepts the one-digit month), "2019-02-30", ""
DateInputs ==
  { <<50, 48, 50, 48, DASH, 50, DASH, 50, 57, SP>>,
    <<50, 48, 49, 57, DASH, 48, 50, DASH, 51, 48>>,
    <<>> }

\* the start_year field: "", "x", "2024", " 2030", "2060"
StartInputs ==
  { <<>>,
    <<ChX>>,
    <<50, 48, 50, 52>>,
    <<SP, 50, 48, 51, 48>>,
    <<50, 48, 54, 48>> }

\* the end_year field: "", "x", "2024", "2060 "
EndInputs ==
  { <<>>,
    <<ChX>>,
    <<50, 48, 50, 52>>,
    <<50, 48, 54, 48, SP>> }

\* what str(e) of a failed call can be: an HTTP status, a transport errno
Causes == {503}

\* raw releases of the catalog's JSON (dicts): RelA has no title, RelB an
\* empty title and two credits, RelC a credit without a name
RelA ==
  ("date" :> <<50, 48, 49, 57>>)
  @@ ("artist-credit" :> << ("name" :> <<ChA>>) >>) @@ ("id" :> <<ChX>>)
RelB ==
  ("title" :> <<>>)
  @@ ("artist-credit" :> << ("name" :> <<ChA>>), ("name" :> <<ChB>>) >>)
RelC ==
  ("title" :> <<ChB>>) @@ ("artist-credit" :> << ("joinphrase" :> <<SP>>) >>)
  @@ ("id" :> <<ChA>>)

RawReleases == {RelA, RelB, RelC}

\* the lists of at most n raw releases
RECURSIVE ReleaseLists(_)
ReleaseLists(n) ==
  IF n = 0 THEN {<<>>}
  ELSE LET shorter == ReleaseLists(n - 1)
       IN shorter \cup {Append(l, r) : l \in {x \in shorter : Len(x) = n - 1},
                                       r \in RawReleases}

\* the responses a successful call can carry
Responses == ReleaseLists(MaxPerCall)

\* ----------------------------------------------------------- the messages
\* a message of the banner: which text, and the values formatted into it
InvalidDateMsg == [kind |-> "Invalid date. Please use the date picker.", args |-> <<>>]
YearsMsg == [kind |-> "Start/end year must be numbers.", args |-> <<>>]
RangeMsg(year_span, start, end) ==
  [kind |-> "Year range too large", args |-> <<year_span, start, end, CurrentYear>>]
HTTPErrorMsg(yr, e) == [kind |-> "HTTP error for year", args |-> <<yr, e>>]
ErrorMsg(yr, e) == [kind |-> "Error for year", args |-> <<yr, e>>]

\* (error + " | " if error else "") + msg
JoinError(err, msg) == IF err # <<>> THEN err \o <<msg>> ELSE <<msg>>

\* the assignment of a failed call: error = f"... for year {year}: {e}"
FailError(err, msg) == <<msg>>

\* ------------------------------------------------------------ the resolver
\* ParseYears without the swap of line 210
ParseYears_NoSwap(start_str, end_str) ==
  LET s == IF start_str # <<>> THEN ParseInt(start_str)
           ELSE [ok |-> TRUE, val |-> DefaultStartYear]
      e == IF end_str # <<>> THEN ParseInt(end_str)
           ELSE [ok |-> TRUE, val |-> CurrentYear]
  IN IF ~s.ok \/ ~e.ok
       THEN [ok |-> FALSE, start |-> DefaultStartYear, end |-> CurrentYear]
     ELSE [ok |-> TRUE, start |-> s.val, end |-> e.val]

\* ParseYears whose except branch leaves an already parsed start year
ParseYears_KeepStart(start_str, end_str) ==
  LET s == IF start_str # <<>> THEN ParseInt(start_str)
           ELSE [ok |-> TRUE, val |-> DefaultStartYear]
      e == IF end_str # <<>> THEN ParseInt(end_str)
           ELSE [ok |-> TRUE, val |-> CurrentYear]
  IN IF ~s.ok
       THEN [ok |-> FALSE, start |-> DefaultStartYear, end |-> CurrentYear]
     ELSE IF ~e.ok
       THEN [ok |-> FALSE, start |-> s.val, end |-> CurrentYear]
     ELSE IF e.val < s.val
       THEN [ok |-> TRUE, start |-> e.val, end |-> s.val]
     ELSE [ok |-> TRUE, start |-> s.val, end |-> e.val]

\* lines 206-214: int() of the non-blank fields, the swap, the reset
ParseYears(start_str, end_str) ==
  LET s == IF start_str # <<>> THEN ParseInt(start_str)
           ELSE [ok |-> TRUE, val |-> DefaultStartYear]
      e == IF end_str # <<>> THEN ParseInt(end_str)
           ELSE [ok |-> TRUE, val |-> CurrentYear]
  IN IF ~s.ok \/ ~e.ok
       THEN [ok |-> FALSE, start |-> DefaultStartYear, end |-> CurrentYear]
     ELSE IF e.val < s.val
       THEN [ok |-> TRUE, start |-> e.val, end |-> s.val]
     ELSE [ok |-> TRUE, start |-> s.val, end |-> e.val]

\* ClampedEnd without the cap at the current year
ClampedEnd_NoCap(start) == start + MAX_YEARS_PER_REQUEST - 1

\* ClampedEnd that keeps one year too many
ClampedEnd_OffByOne(start) ==
  LET e == start + MAX_YEARS_PER_REQUEST
  IN IF e > CurrentYear THEN CurrentYear ELSE e

\* lines 221-223
ClampedEnd(start) ==
  LET e == start + MAX_YEARS_PER_REQUEST - 1
  IN IF e > CurrentYear THEN CurrentYear ELSE e

\* the fetch step entered whatever the date and the banner are
ShouldFetch_Always(err, md) == TRUE

\* line 217: if not error and mm_dd
ShouldFetch(err, md) == err = <<>> /\ md # None /\ md[1] # <<>>

\* ---------------------------------------------------------- the aggregator
\* ymd = f"{year}-{mm_dd}"
QueryKey(yr, md) == IntToStr(yr) \o <<DASH>> \o md

\* r.get(k)
Get(r, k) == IF k \in DOMAIN r THEN Some(r[k]) ELSE None

\* lines 242-259
ExtractRelease(yr, r) ==
  LET ac == IF "artist-credit" \in DOMAIN r THEN r["artist-credit"] ELSE <<>>
      mbid == Get(r, "id")
  IN [year |-> yr,
      title |-> Get(r, "title"),
      artist |-> IF ac # <<>> /\ "name" \in DOMAIN ac[1]
                   THEN Some(ac[1]["name"]) ELSE None,
      date |-> Get(r, "date"),
      url |-> IF mbid # None /\ mbid[1] # <<>>
                THEN Some(<<"https://musicbrainz.org/release/", mbid[1]>>)
                ELSE None]

ExtractAll(yr, rels) == [i \in 1..Len(rels) |-> ExtractRelease(yr, rels[i])]

\* x or ""
OrEmpty(o) == IF o = None THEN <<>> ELSE o[1]

\* Python's order of str
RECURSIVE StrLess(_, _)
StrLess(a, b) ==
  IF b = <<>> THEN FALSE
  ELSE IF a = <<>> THEN TRUE
  ELSE IF Head(a) # Head(b) THEN Head(a) < Head(b)
  ELSE StrLess(Tail(a), Tail(b))

\* a sort key that leaves the artist out
SortKey_NoArtist(x) == <<x.year, <<>>, OrEmpty(x.title)>>

\* the key of line 267
SortKey(x) == <<x.year, OrEmpty(x.artist), OrEmpty(x.title)>>

\* Python's order of the key tuples
KeyLess(k1, k2) ==
  \/ k1[1] < k2[1]
  \/ k1[1] = k2[1] /\ StrLess(k1[2], k2[2])
  \/ k1[1] = k2[1] /\ k1[2] = k2[2] /\ StrLess(k1[3], k2[3])

\* list.sort is stable: x goes behind every element that is not greater
RECURSIVE InsertSorted(_, _)
InsertSorted(x, sorted) ==
  IF sorted = <<>> THEN <<x>>
  ELSE IF KeyLess(SortKey(x), SortKey(Head(sorted))) THEN <<x>> \o sorted
  ELSE <<Head(sorted)>> \o InsertSorted(x, Tail(sorted))

RECURSIVE SortFrom(_, _)
SortFrom(acc, rest) ==
  IF rest = <<>> THEN acc ELSE SortFrom(InsertSorted(Head(rest), acc), Tail(rest))

\* lines 266-267: if results: results.sort(key=...)
SortResults(rs) == IF rs # <<>> THEN SortFrom(<<>>, rs) ELSE rs

\* a loop that steps over every other year
NextYear_Skip(yr) == yr + 2

\* range(start_year, end_year + 1): the year after yr
NextYear(yr) == yr + 1

\* a loop that goes on after a failed call (continue instead of break)
LoopContinues_NoBreak(yr, end, failed) == NextYear(yr) <= end

\* whether the for loop goes on after the call for yr (break on failure)
LoopContinues(yr, end, failed) == ~failed /\ NextYear(yr) <= end

\* ----------------------------------------------------------------- state
VARIABLES
  pc,           \* "idle", "fetching" (inside the for loop), "done" (rendered)
  method,       \* request.method
  date_value, start_str, end_str,
  mm_dd, pretty_date,
  start_year, end_year,
  error, results,
  year,         \* the loop variable
  calls         \* the calls of search_releases_for_date with their outcomes

vars == <<pc, method, date_value, start_str, end_str, mm_dd, pretty_date,
          start_year, end_year, error, results, year, calls>>

Init ==
  /\ pc = "idle"
  /\ method = "NONE"
  /\ date_value = <<>>
  /\ start_str = <<>>
  /\ end_str = <<>>
  /\ mm_dd = None
  /\ pretty_date = <<>>
  /\ start_year = DefaultStartYear
  /\ end_year = CurrentYear
  /\ error = <<>>
  /\ results = None
  /\ year = 0
  /\ calls = <<>>

\* GET: lines 180-188 and 269-278
Get_ ==
  /\ pc = "idle"
  /\ pc' = "done"
  /\ method' = "GET"
  /\ date_value' = Today
  /\ UNCHANGED <<start_str, end_str, mm_dd, pretty_date, start_year, end_year,
                 error, results, year, calls>>

\* POST up to the first external call: lines 190-231
Post(raw_date, raw_start, raw_end) ==
  LET dv == Strip(raw_date)
      ss == Strip(raw_start)
      es == Strip(raw_end)
      dt == Strptime(dv)
      md == IF dt.ok THEN Some(MmDd(dv)) ELSE None
      err1 == IF dt.ok THEN <<>> ELSE <<InvalidDateMsg>>
      ys == ParseYears(ss, es)
      err2 == IF ys.ok THEN err1 ELSE JoinError(err1, YearsMsg)
      fetch == ShouldFetch(err2, md)
      year_span == ys.end - ys.start + 1
      clamp == fetch /\ year_span > MAX_YEARS_PER_REQUEST
      end == IF clamp THEN ClampedEnd(ys.start) ELSE ys.end
      err3 == IF clamp THEN JoinError(err2, RangeMsg(year_span, ys.start, end))
              ELSE err2
  IN /\ pc = "idle"
     /\ method' = "POST"
     /\ date_value' = dv
     /\ start_str' = ss
     /\ end_str' = es
     /\ mm_dd' = md
     /\ pretty_date' = IF dt.ok THEN StrftimeBd(dt) ELSE <<>>
     /\ start_year' = ys.start
     /\ end_year' = end
     /\ error' = err3
     /\ results' = IF fetch THEN Some(<<>>) ELSE None
     /\ pc' = IF fetch /\ ys.start <= end THEN "fetching" ELSE "done"
     /\ year' = IF fetch /\ ys.start <= end THEN ys.start ELSE year
     /\ UNCHANGED calls

\* the call record of search_releases_for_date(year, mm_dd, limit=50)
Call(status, e, rels) ==
  [year |-> year, query |-> QueryKey(year, mm_dd[1]), limit |-> Limit,
   status |-> status, cause |-> e, releases |-> rels]

\* one iteration of the loop whose call succeeds: lines 233, 241-263, and
\* lines 266-267 when it was the last one
FetchOk(rels) ==
  LET cont == LoopContinues(year, end_year, FALSE)
      rs == results[1] \o ExtractAll(year, rels)
  IN /\ pc = "fetching"
     /\ rels # <<>> => Len(calls) < BusyCalls
     /\ Len(results[1]) + Len(rels) <= MaxRecords
     /\ calls' = Append(calls, Call("ok", 0, rels))
     /\ results' = Some(IF cont THEN rs ELSE SortResults(rs))
     /\ pc' = IF cont THEN "fetching" ELSE "done"
     /\ year' = IF cont THEN NextYear(year) ELSE year
     /\ UNCHANGED <<method, date_value, start_str, end_str, mm_dd,
                    pretty_date, start_year, end_year, error>>

\* what the iteration of a failed call does: lines 234-239, then 266-267
Fail(status, msg) ==
  LET cont == LoopContinues(year, end_year, TRUE)
  IN /\ pc = "fetching"
     /\ calls' = Append(calls, Call(status, msg.args[2], <<>>))
     /\ error' = FailError(error, msg)
     /\ results' = Some(IF cont THEN results[1] ELSE SortResults(results[1]))
     /\ pc' = IF cont THEN "fetching" ELSE "done"
     /\ year' = IF cont THEN NextYear(year) ELSE year
     /\ UNCHANGED <<method, date_value, start_str, end_str, mm_dd,
                    pretty_date, start_year, end_year>>

\* raise_for_status() raised requests.HTTPError
FetchHTTPError(e) == Fail("HTTPError", HTTPErrorMsg(year, e))

\* requests.get or resp.json() raised another exception
FetchException(e) == Fail("Exception", ErrorMsg(year, e))

Next ==
  \/ Get_
  \/ \E d \in DateInputs, s \in StartInputs, e \in EndInputs : Post(d, s, e)
  \/ \E rels \in Responses : FetchOk(rels)
  \/ \E e \in Causes : FetchHTTPError(e)
  \/ \E e \in Causes : FetchException(e)

Spec == Init /\ [][Next]_vars

\* ------------------------------------------------- vocabulary of the claims
Min(a, b) == IF a < b THEN a ELSE b

\* the submitted date parsed
DateOk == Strptime(date_value).ok

\* a year field that is not blank and not an integer
NonNumeric(s) == s # <<>> /\ ~ParseInt(s).ok

\* the value a numeric or blank year field stands for
FieldYear(s, default) == IF s = <<>> THEN default ELSE ParseInt(s).val

SubStart == FieldYear(start_str, DefaultStartYear)
SubEnd == FieldYear(end_str, CurrentYear)
YearsOk == ~NonNumeric(start_str) /\ ~NonNumeric(end_str)

\* the pair after defaults and swap, and its span
SwapLo == Min(SubStart, SubEnd)
SwapHi == IF SubStart < SubEnd THEN SubEnd ELSE SubStart
SwapSpan == SwapHi - SwapLo + 1

Submitted == method = "POST" /\ pc # "idle"

HasMsg(kind) == \E i \in 1..Len(error) : error[i].kind = kind
HasRangeMsg == HasMsg("Year range too large")

AllOk == \A i \in 1..Len(calls) : calls[i].status = "ok"

\* the record the data model asks for a raw release r fetched for year yr
LawRecord(yr, r) ==
  [year |-> yr,
   title |-> IF "title" \in DOMAIN r THEN Some(r["title"]) ELSE None,
   artist |-> IF "artist-credit" \in DOMAIN r
                 /\ r["artist-credit"] # <<>>
                 /\ "name" \in DOMAIN r["artist-credit"][1]
                THEN Some(r["artist-credit"][1]["name"]) ELSE None,
   date |-> IF "date" \in DOMAIN r THEN Some(r["date"]) ELSE None,
   url |-> IF "id" \in DOMAIN r
             THEN Some(<<"https://musicbrainz.org/release/", r["id"]>>)
             ELSE None]

\* the records of the first n calls, in the order the loop appended them
RECURSIVE FlattenTo(_, _)
FlattenTo(cs, n) ==
  IF n = 0 THEN <<>>
  ELSE IF cs[n].releases = <<>> THEN FlattenTo(cs, n - 1)
  ELSE FlattenTo(cs, n - 1)
       \o [i \in 1..Len(cs[n].releases) |-> LawRecord(cs[n].year, cs[n].releases[i])]

Flatten(cs) == FlattenTo(cs, Len(cs))

Collected == Flatten(calls)

Count(seq, x) == Cardinality({i \in 1..Len(seq) : seq[i] = x})
IsPermutation(a, b) ==
  /\ Len(a) = Len(b)
  /\ \A i \in 1..Len(a) : Count(a, a[i]) = Count(b, a[i])

\* the key of the sort law: (year, artist or "", title or "")
LawKey(x) ==
  <<x.year, IF x.artist = None THEN <<>> ELSE x.artist[1],
    IF x.title = None THEN <<>> ELSE x.title[1]>>

RECURSIVE Lex(_, _)
Lex(a, b) ==
  IF a = <<>> THEN b # <<>>
  ELSE IF b = <<>> THEN FALSE
  ELSE Head(a) < Head(b) \/ (Head(a) = Head(b) /\ Lex(Tail(a), Tail(b)))

LawLess(k1, k2) ==
  \/ k1[1] < k2[1]
  \/ k1[1] = k2[1] /\ Lex(k1[2], k2[2])
  \/ k1[1] = k2[1] /\ k1[2] = k2[2] /\ Lex(k1[3], k2[3])

IsSorted(seq) ==
  \A i \in 1..Len(seq), j \in 1..Len(seq) :
    i < j => ~LawLess(LawKey(seq[j]), LawKey(seq[i]))

WithKey(seq, k) ==
  LET Same(x) == LawKey(x) = k IN SelectSeq(seq, Same)

\* records of equal key keep the order in which they were collected
IsStable(sorted, collected) ==
  \A i \in 1..Len(collected) :
    WithKey(sorted, LawKey(collected[i])) = WithKey(collected, LawKey(collected[i]))

\* -------------------------------------------------------------- the claims

\* C1: fail-fast with partial results. A failed call is the last call of the
\* submission and ends it; the calls before it are those of the years
\* start_year..y-1 in order; the result list is a permutation of exactly the
\* records those calls returned; the banner names the failing year y.
C1_FailFast ==
  \A i \in 1..Len(calls) :
    calls[i].status # "ok" =>
      /\ i = Len(calls)
      /\ pc = "done"
      /\ \A j \in 1..i : calls[j].year = start_year + j - 1
      /\ results # None
      /\ IsPermutation(results[1], FlattenTo(calls, i - 1))
      /\ \A k \in 1..Len(results[1]) : results[1][k].year < calls[i].year
      /\ error # <<>>
      /\ error[Len(error)].kind \in {"HTTP error for year", "Error for year"}
      /\ error[Len(error)].args[1] = calls[i].year

C1_Witness ==
  /\ pc = "done"
  /\ Len(calls) >= 3
  /\ calls[Len(calls)].status = "HTTPError"
  /\ results # None
  /\ Len(results[1]) >= 2

\* C2: single accumulating error channel. Every message that is in the
\* banner stays in it: no step replaces or drops an earlier message.
C2_ErrorsAccumulate ==
  [][\A i \in 1..Len(error) : i <= Len(error') /\ error'[i] = error[i]]_vars

C4_FetchGating ==
  /\ calls # <<>> => (method = "POST" /\ DateOk)
  /\ (Submitted /\ ~DateOk) => (pc = "done" /\ calls = <<>> /\ results = None)
  /\ method = "GET" => (calls = <<>> /\ results = None)

C4_Witness ==
  /\ Submitted /\ ~DateOk /\ date_value # <<>>
  /\ start_str # <<>> /\ end_str # <<>> /\ YearsOk
  /\ pc = "done" /\ calls = <<>> /\ results = None

\* C5: call order. The i-th call is for the year start_year + i - 1 with
\* the query key of that year and the month-day key of the submitted date;
\* when the loop has ended without a failure there is exactly one call for
\* each year of [start_year, end_year].
C5_CallOrder ==
  /\ \A i \in 1..Len(calls) :
       /\ calls[i].year = start_year + i - 1
       /\ calls[i].year <= end_year
       /\ calls[i].query = NatToStr(calls[i].year) \o <<DASH>>
                             \o SubSeq(date_value, 6, Len(date_value))
  /\ (pc = "done" /\ results # None /\ AllOk) =>
        Len(calls) = (IF end_year >= start_year THEN end_year - start_year + 1 ELSE 0)

C5_Witness ==
  /\ pc = "done" /\ results # None /\ AllOk
  /\ Len(calls) = 7
  /\ calls[7].year = end_year

\* C6: bounded work. No submission issues more than MAX_YEARS_PER_REQUEST
\* external calls.
C6_BoundedWork == Len(calls) <= MAX_YEARS_PER_REQUEST

C6_Witness ==
  /\ pc = "done" /\ YearsOk
  /\ SwapSpan > MAX_YEARS_PER_REQUEST
  /\ Len(calls) = MAX_YEARS_PER_REQUEST

\* C7 as stated: when both year fields are numbers and end < start, the
\* resolved pair handed to the renderer is the swapped pair and the swap
\* adds no error.
C7_Original ==
  (Submitted /\ pc = "done" /\ YearsOk /\ start_str # <<>> /\ end_str # <<>>
     /\ SubEnd < SubStart) =>
    /\ start_year = SubEnd
    /\ end_year = SubStart
    /\ ~HasMsg("Start/end year must be numbers.")

\* C7 amended: when the numeric pair has end < start, the resolved start
\* year is the submitted end and the swap adds no error; the resolved end
\* year is the submitted start unless the clamp applies (the date parsed
\* and the swapped span exceeds the maximum), and then it is
\* min(start_year + 25 - 1, current year).
C7_Swap ==
  (Submitted /\ YearsOk /\ SubEnd < SubStart) =>
    /\ start_year = SubEnd
    /\ end_year = (IF DateOk /\ SubStart - SubEnd + 1 > MAX_YEARS_PER_REQUEST
                     THEN Min(SubEnd + MAX_YEARS_PER_REQUEST - 1, CurrentYear)
                     ELSE SubStart)
    /\ ~HasMsg("Start/end year must be numbers.")
    /\ ~DateOk => error = <<InvalidDateMsg>>
    /\ (DateOk /\ SubStart - SubEnd + 1 <= MAX_YEARS_PER_REQUEST /\ AllOk)
         => error = <<>>

C7_Witness ==
  /\ Submitted /\ pc = "done" /\ DateOk /\ YearsOk
  /\ start_str # <<>> /\ end_str # <<>>
  /\ SubEnd < SubStart
  /\ start_year = SubEnd /\ end_year = SubStart
  /\ Len(calls) = SubStart - SubEnd + 1
  /\ error = <<>>

\* C8: non-numeric year reset. When a non-blank year field is not an
\* integer, the resolved pair is (1990, current year) whatever the other
\* field is, and the banner has the years-must-be-numbers message.
C8_NonNumericReset ==
  (Submitted /\ (NonNumeric(start_str) \/ NonNumeric(end_str))) =>
    /\ start_year = DefaultStartYear
    /\ end_year = CurrentYear
    /\ HasMsg("Start/end year must be numbers.")
    /\ pc = "done"

C8_Witness ==
  /\ Submitted /\ pc = "done"
  /\ start_str # <<>> /\ ~NonNumeric(start_str)
  /\ SubStart # DefaultStartYear
  /\ NonNumeric(end_str)
  /\ start_year = DefaultStartYear

\* C9: sort law. A returned result list is sorted ascending by (year,
\* artist or "", title or ""), records of equal key are in the order in
\* which they were collected, and the list is a permutation of the records
\* the loop collected.
C9_SortLaw ==
  (pc = "done" /\ results # None) =>
    /\ IsSorted(results[1])
    /\ IsStable(results[1], Collected)
    /\ IsPermutation(results[1], Collected)

C9_Witness ==
  /\ pc = "done" /\ results # None
  /\ Len(results[1]) = 3
  /\ results[1] # Collected
  /\ \E i \in 1..3, j \in 1..3 :
       /\ i < j
       /\ LawKey(results[1][i]) = LawKey(results[1][j])
       /\ results[1][i] # results[1][j]

\* C10: well-ordered resolved range. With numeric or blank year fields the
\* resolved pair satisfies start_year <= end_year, also after the clamp and
\* its cap at the current year.
C10_WellOrdered ==
  (Submitted /\ YearsOk) => start_year <= end_year
====
